---------------------------- MODULE Spec2Model ----------------------------
(***************************************************************************)
(* Model of atom::api::SpellCheckClient                                    *)
(* (atom/renderer/api/atom_api_spell_check_client.cc and .h).              *)
(*                                                                         *)
(* The client is single threaded: one entry point runs at a time.  A call  *)
(* is entered by one action that draws the arguments and the behaviour of  *)
(* the JavaScript provider for that call, and then runs to its return in   *)
(* the steps of the code.  Text is a sequence of UTF-16 code units, offsets*)
(* are 0-based as in the code.                                             *)
(***************************************************************************)
EXTENDS Integers, Sequences, FiniteSets, TLC

(* ---- bounds of the model ---------------------------------------------- *)
MaxLen == 5        \* longest text handed to spellCheck
MaxReqLen == 3     \* longest text handed to requestCheckingOfText / autoCorrectWord
MaxResults == 2    \* longest array the provider returns from requestCheckingOfText

(* ---- code units ------------------------------------------------------- *)
\* Code units of the texts handed to spellCheck: two letters, the
\* apostrophe (a mid-letter character) and the space.
WordAlphabet == {"a", "b", "'", " "}

IsLetter(c) == c \in {"a", "b"}
IsMidLetter(c) == c = "'"

RECURSIVE SeqsUpTo(_, _)
SeqsUpTo(S, n) ==
  IF n = 0 THEN {<<>>}
  ELSE LET shorter == SeqsUpTo(S, n - 1)
       IN  shorter \cup {Append(s, c) : s \in {t \in shorter : Len(t) = n - 1}, c \in S}

SpellTexts == SeqsUpTo(WordAlphabet, MaxLen)

(* ---- SpellcheckWordIterator ------------------------------------------- *)
\* Position of the first letter of txt at or after p, Len(txt) if none.
RECURSIVE SkipToLetter(_, _)
SkipToLetter(txt, p) ==
  IF p >= Len(txt) THEN Len(txt)
  ELSE IF IsLetter(txt[p + 1]) THEN p
  ELSE SkipToLetter(txt, p + 1)

\* End (exclusive) of the word that starts at the letter at p.  With
\* allow_contraction a mid-letter character between two letters belongs to
\* the word; without it the word is a maximal run of letters.
RECURSIVE WordEnd(_, _, _)
WordEnd(txt, p, allow_contraction) ==
  IF p < Len(txt) /\ IsLetter(txt[p + 1])
    THEN WordEnd(txt, p + 1, allow_contraction)
  ELSE IF /\ allow_contraction
          /\ p + 1 < Len(txt)
          /\ IsMidLetter(txt[p + 1])
          /\ IsLetter(txt[p + 2])
    THEN WordEnd(txt, p + 2, allow_contraction)
  ELSE p

NoWord == [found |-> FALSE, word |-> <<>>, start |-> 0, length |-> 0, next |-> 0]

\* GetNextWord(&word, &word_start, &word_length) of an iterator over txt
\* whose position is p; next is the position the iterator is left at.
GetNextWord(txt, p, allow_contraction) ==
  LET s == SkipToLetter(txt, p)
      e == WordEnd(txt, s, allow_contraction)
  IN  IF s >= Len(txt) THEN [NoWord EXCEPT !.next = Len(txt)]
      ELSE [found |-> TRUE, word |-> SubSeq(txt, s + 1, e),
            start |-> s, length |-> e - s, next |-> e]

\* All the words the iterator yields from position p on, in order.
RECURSIVE Segment(_, _, _)
Segment(txt, p, allow_contraction) ==
  LET w == GetNextWord(txt, p, allow_contraction)
  IN  IF ~w.found THEN <<>>
      ELSE <<w>> \o Segment(txt, w.next, allow_contraction)

Range(s) == {s[i] : i \in 1..Len(s)}

\* The words of txt the checker can be asked about: the tokens of the text
\* iterator and the sub-words the contraction iterator splits them into.
WordsOf(txt) ==
  LET tokens == {w.word : w \in Range(Segment(txt, 0, TRUE))}
  IN  tokens \cup UNION {{s.word : s \in Range(Segment(t, 0, FALSE))} : t \in tokens}

(* ---- values of the JavaScript provider -------------------------------- *)
\* What the provider's spellCheck function can return for a word: the two
\* booleans and undefined.
JSAnswers == {"true", "false", "undefined"}

IsBoolean(v) == v \in {"true", "false"}
BooleanValue(v) == v = "true"

\* What the provider object can hold under the name spellCheck when the
\* client is constructed.
ProviderProps == {"absent", "function", "number"}

\* Values the caller of spellCheck has in the two output slots; none of
\* them is the span of a word.
SlotInits == {<<-1, 0>>, <<9, 9>>}

(* ---- HasWordCharacters ------------------------------------------------ *)
\* Code units of the texts handed to requestCheckingOfText and
\* autoCorrectWord: a letter, an apostrophe, a digit, the lead surrogates of
\* U+10400 (Deseret) and of U+1D400 (a mathematical symbol), and a trail
\* surrogate.
Alphabet == {"a", "'", "1", "D", "M", "T"}

ReqTexts == SeqsUpTo(Alphabet, MaxReqLen)

IsLead(c) == c \in {"D", "M"}
IsTrail(c) == c = "T"

\* Mutant: one code unit is one code point.
U16_NEXT_CodeUnit(txt, index) ==
  [code |-> <<txt[index + 1]>>, index |-> index + 1]

\* U16_NEXT(data, index, length, code): the code point at index and the
\* index after it.  A lead surrogate followed by a trail surrogate is one
\* code point; an unpaired surrogate is returned as it is.
U16_NEXT(txt, index) ==
  LET c == txt[index + 1]
  IN  IF IsLead(c) /\ index + 1 < Len(txt) /\ IsTrail(txt[index + 2])
        THEN [code |-> <<c, txt[index + 2]>>, index |-> index + 2]
      ELSE [code |-> <<c>>, index |-> index + 1]

\* uscript_getScript(code, &error).
uscript_getScript(code) ==
  IF code = <<"a">> THEN "USCRIPT_LATIN"
  ELSE IF code = <<"D", "T">> THEN "USCRIPT_DESERET"
  ELSE IF code \in {<<"'">>, <<"1">>, <<"M", "T">>} THEN "USCRIPT_COMMON"
  ELSE "USCRIPT_UNKNOWN"

RECURSIVE HasWordCharacters(_, _)
HasWordCharacters(txt, index) ==
  IF index < Len(txt)
    THEN LET n == U16_NEXT(txt, index)
         IN  IF uscript_getScript(n.code) # "USCRIPT_COMMON" THEN TRUE
             ELSE HasWordCharacters(txt, n.index)
  ELSE FALSE

(* ---- values returned by the provider's methods ----------------------- *)
\* A property of a JavaScript object read as an int: an Int32 or not.
JSInt(n) == [isInt32 |-> TRUE, n |-> n]
JSNotInt == [isInt32 |-> FALSE, n |-> 0]

\* Elements of an array returned by requestCheckingOfText.
JSObject(loc, len) == [isObject |-> TRUE, location |-> loc, length |-> len]
JSNotObject == [isObject |-> FALSE, location |-> JSNotInt, length |-> JSNotInt]

JSElements ==
  { JSObject(JSInt(0), JSInt(1)), JSObject(JSInt(2), JSInt(1)),
    JSObject(JSInt(-1), JSInt(0)),
    JSObject(JSInt(0), JSNotInt), JSObject(JSNotInt, JSInt(1)),
    JSNotObject }

JSUndefined == [kind |-> "undefined", chars |-> <<>>, elems |-> <<>>]
JSNumber == [kind |-> "number", chars |-> <<>>, elems |-> <<>>]
JSString(chars) == [kind |-> "string", chars |-> chars, elems |-> <<>>]
JSArray(elems) == [kind |-> "array", chars |-> <<>>, elems |-> elems]

\* What the provider's requestCheckingOfText can return.
RequestReturns ==
  {JSUndefined, JSString(<<"a">>)} \cup
  {JSArray(e) : e \in SeqsUpTo(JSElements, MaxResults)}

\* What the provider's autoCorrectWord can return.
CorrectionReturns ==
  {JSUndefined, JSNumber, JSArray(<<>>)} \cup
  {JSString(c) : c \in SeqsUpTo({"a", "'", "D"}, 2)}

(* ---- mate::ConvertFromV8 ---------------------------------------------- *)
\* Mutant: the length is one short.
ResultFromV8_LengthOffByOne(val) ==
  IF ~val.isObject THEN [ok |-> FALSE, out |-> <<>>]
  ELSE IF ~val.location.isInt32 \/ ~val.length.isInt32
    THEN [ok |-> FALSE, out |-> <<>>]
  ELSE [ok |-> TRUE,
        out |-> [decoration |-> "WebTextDecorationTypeSpelling",
                 location |-> val.location.n, length |-> val.length.n - 1,
                 replacement |-> <<>>]]

\* Mutant: location and length are written the wrong way round.
ResultFromV8_Swapped(val) ==
  IF ~val.isObject THEN [ok |-> FALSE, out |-> <<>>]
  ELSE IF ~val.location.isInt32 \/ ~val.length.isInt32
    THEN [ok |-> FALSE, out |-> <<>>]
  ELSE [ok |-> TRUE,
        out |-> [decoration |-> "WebTextDecorationTypeSpelling",
                 location |-> val.length.n, length |-> val.location.n,
                 replacement |-> <<>>]]

\* Converter<int32_t>: the value must be an Int32.
\* Converter<blink::WebTextCheckingResult>::FromV8 (lines 21-31): the value
\* must be an object whose location and length are Int32; the other members
\* of the result keep what its constructor gave them.
ResultFromV8(val) ==
  IF ~val.isObject THEN [ok |-> FALSE, out |-> <<>>]
  ELSE IF ~val.location.isInt32 \/ ~val.length.isInt32
    THEN [ok |-> FALSE, out |-> <<>>]
  ELSE [ok |-> TRUE,
        out |-> [decoration |-> "WebTextDecorationTypeSpelling",
                 location |-> val.location.n, length |-> val.length.n,
                 replacement |-> <<>>]]

\* Mutant: an element that does not convert is skipped.
RECURSIVE VectorItems_SkipsBad(_, _)
VectorItems_SkipsBad(elems, i) ==
  IF i > Len(elems) THEN [ok |-> TRUE, out |-> <<>>]
  ELSE LET item == ResultFromV8(elems[i])
           rest == VectorItems_SkipsBad(elems, i + 1)
       IN  [ok |-> TRUE,
            out |-> IF item.ok THEN <<item.out>> \o rest.out ELSE rest.out]

\* Converter<std::vector<T>>: the value must be an array and every element
\* must convert; the output is untouched otherwise.
RECURSIVE VectorItems(_, _)
VectorItems(elems, i) ==
  IF i > Len(elems) THEN [ok |-> TRUE, out |-> <<>>]
  ELSE LET item == ResultFromV8(elems[i])
       IN  IF ~item.ok THEN [ok |-> FALSE, out |-> <<>>]
           ELSE LET rest == VectorItems(elems, i + 1)
                IN  [ok |-> rest.ok,
                     out |-> IF rest.ok THEN <<item.out>> \o rest.out ELSE <<>>]

VectorFromV8(val) ==
  IF val.kind # "array" THEN [ok |-> FALSE, out |-> <<>>]
  ELSE VectorItems(val.elems, 1)

\* Mutant: a value that is not a string is turned into one.
String16FromV8_ToString(val) ==
  [ok |-> TRUE, out |-> IF val.kind = "string" THEN val.chars ELSE <<"a">>]

\* Converter<base::string16>: the value must be a string.
String16FromV8(val) ==
  IF val.kind # "string" THEN [ok |-> FALSE, out |-> <<>>]
  ELSE [ok |-> TRUE, out |-> val.chars]

ConvertFromV8(val, T) ==
  IF T = "vector" THEN VectorFromV8(val) ELSE String16FromV8(val)

(* ---- state ------------------------------------------------------------ *)
VARIABLES
  provider,           \* what the provider held under the name spellCheck
  spell_check_,       \* TRUE iff the persistent function handle is not empty
  text_init,          \* text_iterator_.IsInitialized()
  contr_init,         \* contraction_iterator_.IsInitialized()
  pc,                 \* "idle", the place the running call is at, or
                      \* "done" when it has returned to its caller
  op,                 \* the entry point that runs or has just returned
  text,               \* its text argument
  verdict,            \* what the provider's spellCheck returns for each word
  pos,                \* position of text_iterator_ in its text
  passed_start,       \* misspelling_start as the caller passed it
  passed_len,         \* misspelling_len as the caller passed it
  misspelling_start,  \* the output slots
  misspelling_len,
  queries,            \* words CheckSpelling handed to the provider in this call
  init_log,           \* the calls of Initialize on the iterators in this call
  methods,            \* the methods the provider has at the call
  has,                \* what provider->Has(method) answered in this call
  ret,                \* what the provider's method returned in this call
  invoked,            \* the provider methods CallProviderMethod invoked
  signals,            \* what completionCallback received in this call
  result,             \* what autoCorrectWord returned
  paragraph,          \* the arguments of checkTextOfParagraph in this call
  \* The history of the client, kept by SpecLife:
  text_inits,         \* calls of Initialize on text_iterator_ so far
  issued,             \* calls of requestCheckingOfText so far
  delivered,          \* signals the completion callbacks received so far
  earlier,            \* the entry points that have returned
  mid_scan            \* the last scan of spellCheck stopped with words left

vars == <<provider, spell_check_, text_init, contr_init, pc, op, text,
          verdict, pos, passed_start, passed_len, misspelling_start,
          misspelling_len, queries, init_log, methods, has, ret, invoked,
          signals, result, paragraph, text_inits, issued, delivered,
          earlier, mid_scan>>

\* The history of the client over its calls.
lifeVars == <<text_inits, issued, delivered, earlier, mid_scan>>

\* The members of the client that outlive a call.
members == <<provider, spell_check_, text_init, contr_init, pos>>
\* What a call of spellCheck works on.
spellVars == <<verdict, passed_start, passed_len, misspelling_start,
               misspelling_len, queries, init_log>>
\* What a call that goes to a method of the provider works on.
providerVars == <<methods, has, ret, invoked, signals, result>>

\* The methods CallProviderMethod looks up on the provider.
ProviderMethods == {"autoCorrectWord", "requestCheckingOfText"}

\* No call of checkTextOfParagraph.
NoParagraph == [results_null |-> FALSE, spelling |-> FALSE]

\* blink::WebString: null, or a string of code units.
NullString == [isNull |-> TRUE, chars |-> <<>>]
WebString(chars) == [isNull |-> FALSE, chars |-> chars]

(* ---- SpellCheckClient::SpellCheckClient ------------------------------- *)
\* Mutant: the handle is filled with whatever the provider holds.
Construct_AnyValue(prop) == prop # "absent"

\* dict.Get("spellCheck", &spell_check_) fills the handle only when the
\* property is a function.
Construct(prop) == prop = "function"

Init ==
  /\ provider \in ProviderProps
  /\ spell_check_ = Construct(provider)
  /\ text_init = FALSE
  /\ contr_init = FALSE
  /\ pc = "idle"
  /\ op = "none"
  /\ text = <<>>
  /\ verdict = <<>>
  /\ pos = 0
  /\ passed_start = 0
  /\ passed_len = 0
  /\ misspelling_start = 0
  /\ misspelling_len = 0
  /\ queries = <<>>
  /\ init_log = <<>>
  /\ methods = {}
  /\ has = FALSE
  /\ ret = JSUndefined
  /\ invoked = <<>>
  /\ signals = <<>>
  /\ result = NullString
  /\ paragraph = NoParagraph
  /\ text_inits = 0
  /\ issued = 0
  /\ delivered = 0
  /\ earlier = {}
  /\ mid_scan = FALSE

(* ---- SpellCheckClient::CheckSpelling ---------------------------------- *)
\* Mutant: a value that is not a boolean is taken by its truth value.
CheckSpelling_Truthy(bound, fn, word) ==
  IF ~bound THEN [correct |-> TRUE, asked |-> <<>>]
  ELSE [correct |-> BooleanValue(fn[word]), asked |-> <<word>>]

\* The answer, and the words handed to the provider to get it.
CheckSpelling(bound, fn, word) ==
  IF ~bound THEN [correct |-> TRUE, asked |-> <<>>]
  ELSE LET r == fn[word]
       IN  [correct |-> IF IsBoolean(r) THEN BooleanValue(r) ELSE TRUE,
            asked |-> <<word>>]

(* ---- SpellCheckClient::IsValidContraction ----------------------------- *)
\* Mutant: the loop goes on after a rejected sub-word.
RECURSIVE ContractionLoop_NoEarlyExit(_, _, _, _)
ContractionLoop_NoEarlyExit(bound, fn, contraction, p) ==
  LET w == GetNextWord(contraction, p, FALSE)
  IN  IF ~w.found THEN [valid |-> TRUE, asked |-> <<>>]
      ELSE LET c == CheckSpelling(bound, fn, w.word)
               rest == ContractionLoop_NoEarlyExit(bound, fn, contraction,
                                                   w.next)
           IN  [valid |-> c.correct /\ rest.valid,
                asked |-> c.asked \o rest.asked]

\* The while loop over the sub-words of contraction, from position p.
RECURSIVE ContractionLoop(_, _, _, _)
ContractionLoop(bound, fn, contraction, p) ==
  LET w == GetNextWord(contraction, p, FALSE)
  IN  IF ~w.found THEN [valid |-> TRUE, asked |-> <<>>]
      ELSE LET c == CheckSpelling(bound, fn, w.word)
           IN  IF ~c.correct THEN [valid |-> FALSE, asked |-> c.asked]
               ELSE LET rest == ContractionLoop(bound, fn, contraction, w.next)
                    IN  [valid |-> rest.valid, asked |-> c.asked \o rest.asked]

\* Mutant: a rejected token is never looked at as a contraction.
IsValidContraction_Never(bound, fn, initialized, init_ok, contraction) ==
  [valid |-> FALSE, asked |-> <<>>, initialized |-> initialized,
   attempts |-> <<>>]

\* initialized: contraction_iterator_.IsInitialized() on entry; init_ok: what
\* Initialize returns if it is called.
IsValidContraction(bound, fn, initialized, init_ok, contraction) ==
  IF ~initialized /\ ~init_ok
    THEN [valid |-> TRUE, asked |-> <<>>, initialized |-> FALSE,
          attempts |-> <<init_ok>>]
  ELSE LET r == ContractionLoop(bound, fn, contraction, 0)
       IN  [valid |-> r.valid, asked |-> r.asked, initialized |-> TRUE,
            attempts |-> IF initialized THEN <<>> ELSE <<init_ok>>]

(* ---- SpellCheckClient::spellCheck ------------------------------------- *)
\* Outcomes of Initialize on an iterator: not called when it is initialized.
InitOutcomes(initialized) == IF initialized THEN {TRUE} ELSE BOOLEAN

\* An entry of init_log: Initialize was called on the iterator while the
\* word at position at was looked at, and returned ok.
InitCall(iterator, ok, at) == [iterator |-> iterator, ok |-> ok, at |-> at]

\* The early return of line 74.
SpellCheckNoOp(t, bound) == Len(t) = 0 \/ ~bound

\* Mutant: Initialize runs on text_iterator_ in every call.
spellCheck_AlwaysInitializes(t, fn, s0, l0, init_ok) ==
  /\ pc = "idle"
  /\ op' = "spellCheck"
  /\ text' = t
  /\ verdict' = fn
  /\ passed_start' = s0
  /\ passed_len' = l0
  /\ misspelling_start' = s0
  /\ misspelling_len' = l0
  /\ queries' = <<>>
  /\ IF SpellCheckNoOp(t, spell_check_)
       THEN /\ pc' = "done"
            /\ init_log' = <<>>
            /\ UNCHANGED <<text_init, pos>>
     ELSE IF ~init_ok
       THEN /\ pc' = "done"
            /\ init_log' = <<InitCall("text_iterator_", FALSE, 0)>>
            /\ UNCHANGED <<text_init, pos>>
     ELSE /\ text_init' = TRUE
          /\ init_log' = <<InitCall("text_iterator_", TRUE, 0)>>
          /\ pos' = 0
          /\ pc' = "scan"
  /\ UNCHANGED <<provider, spell_check_, contr_init, paragraph>>
  /\ UNCHANGED providerVars

\* Mutant: SetText leaves the iterator where the last scan stopped.
spellCheck_KeepsPosition(t, fn, s0, l0, init_ok) ==
  /\ pc = "idle"
  /\ op' = "spellCheck"
  /\ text' = t
  /\ verdict' = fn
  /\ passed_start' = s0
  /\ passed_len' = l0
  /\ misspelling_start' = s0
  /\ misspelling_len' = l0
  /\ queries' = <<>>
  /\ IF SpellCheckNoOp(t, spell_check_)
       THEN /\ pc' = "done"
            /\ init_log' = <<>>
            /\ UNCHANGED <<text_init, pos>>
     ELSE IF ~text_init /\ ~init_ok
       THEN /\ pc' = "done"
            /\ init_log' = <<InitCall("text_iterator_", FALSE, 0)>>
            /\ UNCHANGED <<text_init, pos>>
     ELSE /\ text_init' = TRUE
          /\ init_log' = IF text_init THEN <<>>
                          ELSE <<InitCall("text_iterator_", TRUE, 0)>>
          /\ pos' = IF pos <= Len(t) THEN pos ELSE Len(t)
          /\ pc' = "scan"
  /\ UNCHANGED <<provider, spell_check_, contr_init, paragraph>>
  /\ UNCHANGED providerVars

\* Entry of spellCheck up to SetText (lines 69-88).
spellCheck(t, fn, s0, l0, init_ok) ==
  /\ pc = "idle"
  /\ op' = "spellCheck"
  /\ text' = t
  /\ verdict' = fn
  /\ passed_start' = s0
  /\ passed_len' = l0
  /\ misspelling_start' = s0
  /\ misspelling_len' = l0
  /\ queries' = <<>>
  /\ IF SpellCheckNoOp(t, spell_check_)
       THEN /\ pc' = "done"
            /\ init_log' = <<>>
            /\ UNCHANGED <<text_init, pos>>
     ELSE IF ~text_init /\ ~init_ok
       THEN /\ pc' = "done"
            /\ init_log' = <<InitCall("text_iterator_", FALSE, 0)>>
            /\ UNCHANGED <<text_init, pos>>
     ELSE /\ text_init' = TRUE
          /\ init_log' = IF text_init THEN <<>>
                          ELSE <<InitCall("text_iterator_", TRUE, 0)>>
          /\ pos' = 0
          /\ pc' = "scan"
  /\ UNCHANGED <<provider, spell_check_, contr_init, paragraph>>
  /\ UNCHANGED providerVars

\* Mutant: the sub-words are asked about before the token.
ScanWord_ContractionFirst(bound, fn, initialized, init_ok, w) ==
  LET c == CheckSpelling(bound, fn, w.word)
  IN  IF c.correct
        THEN [report |-> FALSE, start |-> 0, length |-> 0, asked |-> c.asked,
              initialized |-> initialized, attempts |-> <<>>]
      ELSE LET v == IsValidContraction(bound, fn, initialized, init_ok, w.word)
           IN  [report |-> ~v.valid, start |-> w.start, length |-> w.length,
                asked |-> v.asked \o c.asked,
                initialized |-> v.initialized, attempts |-> v.attempts]

\* Mutant: the contraction iterator writes to word_start and word_length,
\* the span of its last sub-word is reported.
ScanWord_SubWordSpan(bound, fn, initialized, init_ok, w) ==
  LET c == CheckSpelling(bound, fn, w.word)
  IN  IF c.correct
        THEN [report |-> FALSE, start |-> 0, length |-> 0, asked |-> c.asked,
              initialized |-> initialized, attempts |-> <<>>]
      ELSE LET v == IsValidContraction(bound, fn, initialized, init_ok, w.word)
               subs == Segment(w.word, 0, FALSE)
               last == subs[Len(v.asked)]
           IN  [report |-> ~v.valid,
                start |-> IF v.valid THEN w.start ELSE last.start,
                length |-> IF v.valid THEN w.length ELSE last.length,
                asked |-> c.asked \o v.asked,
                initialized |-> v.initialized, attempts |-> v.attempts]

\* What one iteration of the while loop does with the word w (lines 92-102):
\* go on with the next word, or report the span of w and return.
ScanWord(bound, fn, initialized, init_ok, w) ==
  LET c == CheckSpelling(bound, fn, w.word)
  IN  IF c.correct
        THEN [report |-> FALSE, start |-> 0, length |-> 0, asked |-> c.asked,
              initialized |-> initialized, attempts |-> <<>>]
      ELSE LET v == IsValidContraction(bound, fn, initialized, init_ok, w.word)
           IN  [report |-> ~v.valid, start |-> w.start, length |-> w.length,
                asked |-> c.asked \o v.asked,
                initialized |-> v.initialized, attempts |-> v.attempts]

\* Mutant: the return of line 102 is missing, the scan goes on after a
\* report.
SpellCheckScan_NoReturn(init_ok) ==
  /\ pc = "scan"
  /\ LET w == GetNextWord(text, pos, TRUE)
     IN  IF ~w.found
           THEN /\ pc' = "done"
                /\ pos' = w.next
                /\ UNCHANGED <<contr_init, misspelling_start, misspelling_len,
                               queries, init_log>>
         ELSE LET r == ScanWord(spell_check_, verdict, contr_init, init_ok, w)
              IN  /\ pos' = w.next
                  /\ queries' = queries \o r.asked
                  /\ contr_init' = r.initialized
                  /\ init_log' = init_log \o
                       [i \in 1..Len(r.attempts) |->
                          InitCall("contraction_iterator_", r.attempts[i],
                                   w.start)]
                  /\ IF r.report
                       THEN /\ misspelling_start' = r.start
                            /\ misspelling_len' = r.length
                            /\ pc' = "scan"
                     ELSE /\ pc' = "scan"
                          /\ UNCHANGED <<misspelling_start, misspelling_len>>
  /\ UNCHANGED <<provider, spell_check_, text_init, op, text, verdict,
                 passed_start, passed_len, paragraph>>
  /\ UNCHANGED providerVars

\* One iteration of the while loop of spellCheck (lines 89-103).
SpellCheckScan(init_ok) ==
  /\ pc = "scan"
  /\ LET w == GetNextWord(text, pos, TRUE)
     IN  IF ~w.found
           THEN /\ pc' = "done"
                /\ pos' = w.next
                /\ UNCHANGED <<contr_init, misspelling_start, misspelling_len,
                               queries, init_log>>
         ELSE LET r == ScanWord(spell_check_, verdict, contr_init, init_ok, w)
              IN  /\ pos' = w.next
                  /\ queries' = queries \o r.asked
                  /\ contr_init' = r.initialized
                  /\ init_log' = init_log \o
                       [i \in 1..Len(r.attempts) |->
                          InitCall("contraction_iterator_", r.attempts[i],
                                   w.start)]
                  /\ IF r.report
                       THEN /\ misspelling_start' = r.start
                            /\ misspelling_len' = r.length
                            /\ pc' = "done"
                     ELSE /\ pc' = "scan"
                          /\ UNCHANGED <<misspelling_start, misspelling_len>>
  /\ UNCHANGED <<provider, spell_check_, text_init, op, text, verdict,
                 passed_start, passed_len, paragraph>>
  /\ UNCHANGED providerVars

(* ---- SpellCheckClient::CallProviderMethod ----------------------------- *)
\* Mutant: the name that is looked up is not the name of the method that
\* is called.
Has_OtherName(ms, method) == "autoCorrectWord" \in ms

\* provider->Has(mate::StringToV8(isolate_, method)) on a provider that has
\* the methods ms (line 167).
Has(ms, method) == method \in ms

\* Mutant: the method is called once to see whether it answers and once
\* for the value.
CallProviderMethod_CallsTwice(ms, method, t, val, T) ==
  IF ~Has(ms, method)
    THEN [ok |-> FALSE, out |-> <<>>, invoked |-> <<>>, has |-> FALSE]
  ELSE LET c == ConvertFromV8(val, T)
       IN  [ok |-> c.ok, out |-> c.out,
            invoked |-> <<[method |-> method, arg |-> t],
                          [method |-> method, arg |-> t]>>, has |-> TRUE]

\* ms: the methods of the provider; val: what the method returns when it is
\* called with t; T: the type of *result.
CallProviderMethod(ms, method, t, val, T) ==
  IF ~Has(ms, method)
    THEN [ok |-> FALSE, out |-> <<>>, invoked |-> <<>>, has |-> FALSE]
  ELSE LET c == ConvertFromV8(val, T)
       IN  [ok |-> c.ok, out |-> c.out,
            invoked |-> <<[method |-> method, arg |-> t]>>, has |-> TRUE]

(* ---- SpellCheckClient::requestCheckingOfText -------------------------- *)
Cancel == [signal |-> "didCancelCheckingText", results |-> <<>>]
Finish(results) == [signal |-> "didFinishCheckingText", results |-> results]

\* Mutant: only the empty text is cancelled without asking the provider.
ShortCircuit_OnlyEmpty(t) == Len(t) = 0

\* The early return of lines 125-128.
ShortCircuit(t) == Len(t) = 0 \/ ~HasWordCharacters(t, 0)

\* Mutant: the early return gives the callback no signal.
requestCheckingOfText_NoCancel(t) ==
  /\ pc = "idle"
  /\ op' = "requestCheckingOfText"
  /\ text' = t
  /\ IF ShortCircuit(t)
       THEN /\ signals' = <<>>
            /\ pc' = "done"
     ELSE /\ signals' = <<>>
          /\ pc' = "dispatch"
  /\ UNCHANGED <<methods, has, ret, invoked, result, paragraph>>
  /\ UNCHANGED members
  /\ UNCHANGED spellVars

\* Entry of requestCheckingOfText (lines 119-128).
requestCheckingOfText(t) ==
  /\ pc = "idle"
  /\ op' = "requestCheckingOfText"
  /\ text' = t
  /\ IF ShortCircuit(t)
       THEN /\ signals' = <<Cancel>>
            /\ pc' = "done"
     ELSE /\ signals' = <<>>
          /\ pc' = "dispatch"
  /\ UNCHANGED <<methods, has, ret, invoked, result, paragraph>>
  /\ UNCHANGED members
  /\ UNCHANGED spellVars

\* Mutant: the return after the cancel of line 132 is missing.
Completion_NoReturn(call) ==
  IF ~call.ok THEN <<Cancel, Finish(call.out)>> ELSE <<Finish(call.out)>>

\* What completionCallback receives after the call of the provider
\* (lines 131-137).
Completion(call) ==
  IF ~call.ok THEN <<Cancel>> ELSE <<Finish(call.out)>>

\* The call of the provider and the completion (lines 130-137).
RequestDispatch(ms, val) ==
  /\ pc = "dispatch"
  /\ LET call == CallProviderMethod(ms, "requestCheckingOfText", text, val,
                                    "vector")
     IN  /\ invoked' = call.invoked
         /\ signals' = signals \o Completion(call)
         /\ has' = call.has
  /\ methods' = ms
  /\ ret' = val
  /\ pc' = "done"
  /\ UNCHANGED <<op, text, result, paragraph>>
  /\ UNCHANGED members
  /\ UNCHANGED spellVars

(* ---- SpellCheckClient::autoCorrectWord -------------------------------- *)
\* What autoCorrectWord returns after the call of the provider.
Correction(call) == IF ~call.ok THEN NullString ELSE WebString(call.out)

autoCorrectWord(w, ms, val) ==
  /\ pc = "idle"
  /\ op' = "autoCorrectWord"
  /\ text' = w
  /\ LET call == CallProviderMethod(ms, "autoCorrectWord", w, val, "string16")
     IN  /\ invoked' = call.invoked
         /\ result' = Correction(call)
         /\ has' = call.has
  /\ methods' = ms
  /\ ret' = val
  /\ pc' = "done"
  /\ UNCHANGED <<signals, paragraph>>
  /\ UNCHANGED members
  /\ UNCHANGED spellVars

(* ---- SpellCheckClient::checkTextOfParagraph --------------------------- *)
\* What NOTREACHED() does: it stops the process in a build with DCHECKs and
\* is an empty statement in a build without.
Builds == {"dcheck_on", "dcheck_off"}
NOTREACHED(build) == IF build = "dcheck_on" THEN "aborted" ELSE "done"

\* Where checkTextOfParagraph ends (lines 110-116): results_null is
\* !results, spelling is mask & WebTextCheckingTypeSpelling.
ParagraphEnd(results_null, spelling, build) ==
  IF results_null THEN "done"
  ELSE IF ~spelling THEN "done"
  ELSE NOTREACHED(build)

checkTextOfParagraph(t, results_null, spelling, build) ==
  /\ pc = "idle"
  /\ op' = "checkTextOfParagraph"
  /\ text' = t
  /\ paragraph' = [results_null |-> results_null, spelling |-> spelling]
  /\ pc' = ParagraphEnd(results_null, spelling, build)
  /\ UNCHANGED members
  /\ UNCHANGED spellVars
  /\ UNCHANGED providerVars

\* The caller has taken the outcome of the call; the client keeps its
\* members and nothing of the call.
Return ==
  /\ pc = "done"
  /\ pc' = "idle"
  /\ op' = "none"
  /\ text' = <<>>
  /\ verdict' = <<>>
  /\ passed_start' = 0
  /\ passed_len' = 0
  /\ misspelling_start' = 0
  /\ misspelling_len' = 0
  /\ queries' = <<>>
  /\ init_log' = <<>>
  /\ methods' = {}
  /\ has' = FALSE
  /\ ret' = JSUndefined
  /\ invoked' = <<>>
  /\ signals' = <<>>
  /\ result' = NullString
  /\ paragraph' = NoParagraph
  /\ UNCHANGED members

\* The behaviours of the provider's spellCheck function on the words of t;
\* there is no function to call when the handle is empty.
Verdicts(t) == IF spell_check_ THEN [WordsOf(t) -> JSAnswers] ELSE {<<>>}

Next ==
  \/ /\ pc = "idle"
     /\ \E t \in SpellTexts, s \in SlotInits :
          \E fn \in Verdicts(t), ok \in InitOutcomes(text_init) :
            spellCheck(t, fn, s[1], s[2], ok)
     /\ UNCHANGED lifeVars
  \/ /\ pc = "scan"
     /\ \E ok \in InitOutcomes(contr_init) : SpellCheckScan(ok)
     /\ UNCHANGED lifeVars
  \/ /\ pc = "idle"
     /\ \E t \in ReqTexts : requestCheckingOfText(t)
     /\ UNCHANGED lifeVars
  \/ /\ pc = "dispatch"
     /\ \E ms \in SUBSET ProviderMethods, val \in RequestReturns :
          RequestDispatch(ms, val)
     /\ UNCHANGED lifeVars
  \/ /\ pc = "idle"
     /\ \E w \in ReqTexts, ms \in SUBSET ProviderMethods :
          \E val \in CorrectionReturns : autoCorrectWord(w, ms, val)
     /\ UNCHANGED lifeVars
  \/ /\ pc = "idle"
     /\ \E t \in ReqTexts, results_null \in BOOLEAN, spelling \in BOOLEAN :
          \E build \in Builds :
            checkTextOfParagraph(t, results_null, spelling, build)
     /\ UNCHANGED lifeVars
  \/ /\ Return
     /\ UNCHANGED lifeVars

\* Single calls with all their inputs; the history is not kept.
Spec == Init /\ [][Next]_vars

(* ---- the lifetime of a client ----------------------------------------- *)
\* Sequences of calls on one client, with the history kept.  The inputs of
\* a call are fewer than in Spec: texts of up to MaxLifeLen code units, at
\* most MaxInitCalls calls of Initialize on text_iterator_ and MaxRequests
\* calls of requestCheckingOfText.
MaxLifeLen == 3
MaxInitCalls == 2
MaxRequests == 2

LifeTexts == SeqsUpTo({"a", "'", " "}, MaxLifeLen)
LifeVerdicts(t) ==
  IF spell_check_ THEN [WordsOf(t) -> {"true", "false"}] ELSE {<<>>}
LifeReqTexts == {<<>>, <<"1">>, <<"a">>}
LifeRequestReturns ==
  {JSUndefined, JSArray(<<>>), JSArray(<<JSObject(JSInt(0), JSInt(1))>>)}
LifeCorrectionReturns == {JSUndefined, JSString(<<"a">>)}

\* The calls of Initialize on text_iterator_ among those of log.
TextInitCalls(log) ==
  Cardinality({i \in 1..Len(log) : log[i].iterator = "text_iterator_"})

\* The text iterator stands before a word of the text it was given last.
WordsLeft == GetNextWord(text, pos, TRUE).found

NextLife ==
  \/ /\ pc = "idle"
     /\ text_init \/ text_inits < MaxInitCalls
     /\ \E t \in LifeTexts :
          \E fn \in LifeVerdicts(t), ok \in InitOutcomes(text_init) :
            spellCheck(t, fn, -1, 0, ok)
     /\ text_inits' = text_inits + TextInitCalls(init_log')
     /\ UNCHANGED <<issued, delivered, earlier, mid_scan>>
  \/ /\ pc = "scan"
     /\ \E ok \in InitOutcomes(contr_init) : SpellCheckScan(ok)
     /\ UNCHANGED lifeVars
  \/ /\ pc = "idle"
     /\ issued < MaxRequests
     /\ \E t \in LifeReqTexts : requestCheckingOfText(t)
     /\ issued' = issued + 1
     /\ delivered' = delivered + Len(signals')
     /\ UNCHANGED <<text_inits, earlier, mid_scan>>
  \/ /\ pc = "dispatch"
     /\ \E ms \in SUBSET ProviderMethods, val \in LifeRequestReturns :
          RequestDispatch(ms, val)
     /\ delivered' = delivered + (Len(signals') - Len(signals))
     /\ UNCHANGED <<text_inits, issued, earlier, mid_scan>>
  \/ /\ pc = "idle"
     /\ \E ms \in SUBSET ProviderMethods, val \in LifeCorrectionReturns :
          autoCorrectWord(<<"a">>, ms, val)
     /\ UNCHANGED lifeVars
  \/ /\ pc = "idle"
     /\ \E results_null \in BOOLEAN, spelling \in BOOLEAN, build \in Builds :
          checkTextOfParagraph(<<"a">>, results_null, spelling, build)
     /\ UNCHANGED lifeVars
  \/ /\ Return
     /\ earlier' = earlier \cup {op}
     /\ mid_scan' = IF op = "spellCheck" /\ queries # <<>>
                       THEN WordsLeft ELSE mid_scan
     /\ UNCHANGED <<text_inits, issued, delivered>>

SpecLife == Init /\ [][NextLife]_vars

(* ======================================================================= *)
(* Properties                                                              *)
(* ======================================================================= *)
Requesting == op = "requestCheckingOfText"
Returned == pc = "done"

\* Every code point of t has the script "common": each code unit is an
\* apostrophe, a digit, or half of the surrogate pair of the mathematical
\* symbol.
AllCommon(t) ==
  \A i \in 1..Len(t) :
    \/ t[i] \in {"'", "1"}
    \/ t[i] = "M" /\ i < Len(t) /\ t[i + 1] = "T"
    \/ t[i] = "T" /\ i > 1 /\ t[i - 1] = "M"

\* C1: a call of requestCheckingOfText gives its completion callback exactly
\* one signal, a cancel or a finish: never more than one at any moment of
\* the call, one when the call has returned, and what the callback has
\* received does not change once the first signal is there.
C1_ExactlyOneSignal ==
  /\ [](Requesting =>
          /\ Len(signals) <= 1
          /\ Returned => Len(signals) = 1
          /\ \A i \in 1..Len(signals) :
               signals[i].signal \in {"didCancelCheckingText",
                                      "didFinishCheckingText"})
  /\ [][Requesting /\ Len(signals) = 1 /\ pc' # "idle"
          => signals' = signals]_vars

\* A request that went to the provider and was completed with results.
C1_Witness ==
  /\ Requesting /\ Returned
  /\ invoked # <<>>
  /\ Len(signals) = 1
  /\ signals[1].signal = "didFinishCheckingText"

\* C2: a request whose text is empty or has only code points of the common
\* script ends in cancel, and the provider's requestCheckingOfText is not
\* invoked for it.
C2_ScriptLessCancels ==
  (Requesting /\ AllCommon(text)) =>
    /\ invoked = <<>>
    /\ pc # "dispatch"
    /\ Returned => signals = <<Cancel>>

\* A request for a text of digits, punctuation or symbols was cancelled.
C2_Witness ==
  /\ Requesting /\ Returned
  /\ text # <<>> /\ AllCommon(text)
  /\ signals = <<Cancel>>

(* ---- spellCheck ------------------------------------------------------- *)
Checking == op = "spellCheck"

\* The words the text iterator yields from the text of the call.
Tokens == Segment(text, 0, TRUE)

\* The call got past the early returns and set the text of the iterator.
Scanned ==
  /\ spell_check_ /\ text # <<>>
  /\ \A i \in 1..Len(init_log) :
       init_log[i].iterator = "text_iterator_" => init_log[i].ok

\* The checker returned the boolean false for the word.
Rejected(word) == verdict[word] = "false"

\* Some sub-word of the token is rejected.
SubWordRejected(tok) ==
  \E s \in Range(Segment(tok.word, 0, FALSE)) : Rejected(s.word)

\* The contraction iterator failed to initialize when the token was looked at.
ContractionInitFailed(tok) ==
  \E i \in 1..Len(init_log) :
    /\ init_log[i].iterator = "contraction_iterator_"
    /\ ~init_log[i].ok
    /\ init_log[i].at = tok.start

\* The token is rejected and contraction resolution does not rescue it.
Miss(tok) ==
  Rejected(tok.word) /\ SubWordRejected(tok) /\ ~ContractionInitFailed(tok)

Misses == {i \in 1..Len(Tokens) : Miss(Tokens[i])}

\* The output slots hold what the caller passed: no misspelling is reported.
NothingReported ==
  misspelling_start = passed_start /\ misspelling_len = passed_len

ReportedSpan(tok) ==
  misspelling_start = tok.start /\ misspelling_len = tok.length

\* C3: spellCheck reports at most one misspelling, the span of the leftmost
\* word of the segmenter that the checker rejects and contraction resolution
\* does not rescue; no later word is reported, and nothing is reported when
\* every word passes.
C3_FirstMissOnly ==
  (Checking /\ Returned) =>
    IF Scanned /\ Misses # {}
      THEN \E i \in Misses :
             /\ \A j \in Misses : i <= j
             /\ ReportedSpan(Tokens[i])
    ELSE NothingReported

\* W1 correct, W2 and W3 incorrect: W2 is reported.
C3_Witness ==
  /\ Checking /\ Returned /\ Scanned
  /\ Len(Tokens) >= 3
  /\ ~Rejected(Tokens[1].word)
  /\ Miss(Tokens[2]) /\ Miss(Tokens[3])
  /\ ReportedSpan(Tokens[2])
  /\ Tokens[3].start # Tokens[2].start

\* C4: when the text is empty or no spellCheck function was resolved from
\* the provider, spellCheck leaves the output slots as the caller passed
\* them and does not invoke the checker.
C4_NoOpWhenEmptyOrUnbound ==
  (Checking /\ (text = <<>> \/ provider # "function")) =>
    /\ NothingReported
    /\ queries = <<>>

\* spellCheck returned for a text with a word while the provider held
\* something under spellCheck that is not a function.
C4_Witness ==
  /\ Checking /\ Returned
  /\ provider = "number"
  /\ Tokens # <<>>
  /\ NothingReported

(* ---- requestCheckingOfText: outcome of the call of the provider ------- *)
\* The value is an array of objects that each have an Int32 location and an
\* Int32 length.
Convertible(val) ==
  /\ val.kind = "array"
  /\ \A i \in 1..Len(val.elems) :
       /\ val.elems[i].isObject
       /\ val.elems[i].location.isInt32
       /\ val.elems[i].length.isInt32

\* C5 as claimed: a request ends in cancel when no spellCheck function is
\* bound, when the provider lacks requestCheckingOfText, or when the
\* returned value does not convert.
C5_Original ==
  (Requesting /\ Returned /\ (~spell_check_ \/ ~has \/ ~Convertible(ret)))
    => signals = <<Cancel>>

\* C5, amended: a request ends in cancel, never in finish, when the
\* provider lacks the requestCheckingOfText method or the value it returns
\* cannot be converted into a sequence of results, one element lacking
\* location or length included; whether a spellCheck function is bound
\* plays no part.
C5_CancelWithoutUsableResult ==
  (Requesting /\ Returned /\ (~has \/ ~Convertible(ret)))
    => signals = <<Cancel>>

\* The provider was called and returned an array in which one element
\* lacks its length; the request was cancelled.
C5_Witness ==
  /\ Requesting /\ Returned
  /\ invoked # <<>>
  /\ ret.kind = "array" /\ Len(ret.elems) >= 2
  /\ \E i \in 1..Len(ret.elems) :
       /\ ret.elems[i].isObject /\ ret.elems[i].location.isInt32
       /\ ~ret.elems[i].length.isInt32
       /\ \A j \in 1..Len(ret.elems) : j # i =>
            JSArray(<<ret.elems[j]>>) \in {v \in RequestReturns : Convertible(v)}
  /\ signals = <<Cancel>>

\* C6: for a text with a word-bearing character and a provider whose
\* requestCheckingOfText returns a convertible sequence, the request ends in
\* didFinishCheckingText with that sequence: as many results, in the same
\* order, each with the location and the length of its element; an empty
\* sequence finishes with no results.
C6_FinishVerbatim ==
  (Requesting /\ Returned /\ ~AllCommon(text) /\ has /\ Convertible(ret)) =>
    /\ Len(signals) = 1
    /\ signals[1].signal = "didFinishCheckingText"
    /\ Len(signals[1].results) = Len(ret.elems)
    /\ \A i \in 1..Len(ret.elems) :
         /\ signals[1].results[i].location = ret.elems[i].location.n
         /\ signals[1].results[i].length = ret.elems[i].length.n

\* Two results, the later one first, were handed over in that order.
C6_Witness ==
  /\ Requesting /\ Returned
  /\ Len(signals) = 1
  /\ signals[1].signal = "didFinishCheckingText"
  /\ Len(signals[1].results) = 2
  /\ signals[1].results[1].location > signals[1].results[2].location
  /\ ret.elems[1].location.n > ret.elems[2].location.n

(* ---- spellCheck: contractions ----------------------------------------- *)
\* The token is rejected as a whole and each of its sub-words is accepted.
Rescuable(tok) == Rejected(tok.word) /\ ~SubWordRejected(tok)

\* No token before the i-th is a miss: the scan gets to the i-th token.
ScanReaches(i) == \A j \in 1..(i - 1) : ~Miss(Tokens[j])

\* C7: a token that the checker rejects as a whole while it accepts every
\* sub-word of it is not reported, and the scan goes on with the next word.
C7_ContractionRescue ==
  (Checking /\ Returned /\ Scanned) =>
    \A i \in 1..Len(Tokens) :
      Rescuable(Tokens[i]) =>
        /\ ~ReportedSpan(Tokens[i])
        /\ (ScanReaches(i) /\ i < Len(Tokens)) =>
             /\ pos >= Tokens[i + 1].next
             /\ \E k \in 1..Len(queries) : queries[k] = Tokens[i + 1].word
             /\ Miss(Tokens[i + 1]) => ReportedSpan(Tokens[i + 1])

\* A rejected token of two accepted sub-words was passed over and the word
\* after it was reported.
C7_Witness ==
  /\ Checking /\ Returned /\ Scanned
  /\ Len(Tokens) >= 2
  /\ Rescuable(Tokens[1])
  /\ Len(Segment(Tokens[1].word, 0, FALSE)) >= 2
  /\ ReportedSpan(Tokens[2])

\* C8: a token that is rejected as a whole and has a rejected sub-word is
\* reported with the start and the length of the whole token in the text,
\* and whatever is reported is the span of such a token.
C8_ContractionFailure ==
  (Checking /\ Returned) =>
    /\ Scanned =>
         \A i \in 1..Len(Tokens) :
           ( /\ Rejected(Tokens[i].word) /\ SubWordRejected(Tokens[i])
             /\ ~ContractionInitFailed(Tokens[i])
             /\ ScanReaches(i) )
           => /\ misspelling_start = Tokens[i].start
              /\ misspelling_len = Tokens[i].length
    /\ ~NothingReported =>
         \E i \in 1..Len(Tokens) :
           /\ ReportedSpan(Tokens[i])
           /\ SubWordRejected(Tokens[i])

\* A token was reported whose rejected sub-word has another span than the
\* token.
C8_Witness ==
  /\ Checking /\ Returned /\ Scanned
  /\ \E i \in 1..Len(Tokens) :
       /\ ReportedSpan(Tokens[i])
       /\ Tokens[i].start > 0
       /\ \E sub \in Range(Segment(Tokens[i].word, 0, FALSE)) :
            /\ Rejected(sub.word)
            /\ sub.length < Tokens[i].length
            /\ sub.start > 0

(* ---- autoCorrectWord -------------------------------------------------- *)
\* C9: autoCorrectWord returns the text the provider's autoCorrectWord
\* returned for the word, unmodified, and the null string when the provider
\* lacks the method or the returned value is not text.
C9_AutoCorrectVerbatim ==
  (op = "autoCorrectWord" /\ Returned) =>
    IF has /\ ret.kind = "string"
      THEN /\ ~result.isNull
           /\ result.chars = ret.chars
           /\ invoked = <<[method |-> "autoCorrectWord", arg |-> text]>>
    ELSE result = NullString

\* The provider suggested a text of two code units other than the word.
C9_Witness ==
  /\ op = "autoCorrectWord" /\ Returned
  /\ has /\ ret.kind = "string"
  /\ Len(ret.chars) = 2 /\ ret.chars # text
  /\ result.chars = ret.chars

(* ---- CheckSpelling ---------------------------------------------------- *)
\* C10: CheckSpelling answers "correct" with an empty handle and for a
\* value that is not a boolean, and the checker's boolean otherwise; so a
\* span that spellCheck reports is the span of a word for which the checker
\* returned the boolean false.
C10_FailOpen ==
  /\ \A w \in DOMAIN verdict :
       /\ CheckSpelling(FALSE, verdict, w).correct
       /\ CheckSpelling(FALSE, verdict, w).asked = <<>>
       /\ ~IsBoolean(verdict[w]) => CheckSpelling(TRUE, verdict, w).correct
       /\ IsBoolean(verdict[w]) =>
            CheckSpelling(TRUE, verdict, w).correct = (verdict[w] = "true")
  /\ (Checking /\ Returned /\ ~NothingReported) =>
       \E i \in 1..Len(Tokens) :
         /\ ReportedSpan(Tokens[i])
         /\ verdict[Tokens[i].word] = "false"
         /\ Tokens[i].word \in Range(queries)

\* All the words of a text were asked about, none got a boolean, nothing
\* was reported.
C10_Witness ==
  /\ Checking /\ Returned /\ Scanned
  /\ Len(Tokens) >= 2
  /\ \A i \in 1..Len(Tokens) : ~IsBoolean(verdict[Tokens[i].word])
  /\ Len(queries) = Len(Tokens)
  /\ NothingReported

(* ---- checkTextOfParagraph --------------------------------------------- *)
\* C11: whenever checkTextOfParagraph is invoked, with any mask and with a
\* results pointer that is null or not, it ends in the fatal assertion and
\* does not return to its caller.
C11_AlwaysAborts ==
  op = "checkTextOfParagraph" => pc = "aborted"

(* ---- the three methods of the provider -------------------------------- *)
\* What a request delivers, from the text, the presence of the provider's
\* requestCheckingOfText and the value it returns.
ExpectedSignals(t, present, val) ==
  IF AllCommon(t) \/ ~present \/ ~Convertible(val) THEN <<Cancel>>
  ELSE <<Finish([i \in 1..Len(val.elems) |->
                   [decoration |-> "WebTextDecorationTypeSpelling",
                    location |-> val.elems[i].location.n,
                    length |-> val.elems[i].length.n,
                    replacement |-> <<>>]])>>

\* What autoCorrectWord returns, from the presence of the provider's
\* autoCorrectWord and the value it returns.
ExpectedCorrection(present, val) ==
  IF present /\ val.kind = "string" THEN WebString(val.chars) ELSE NullString

\* C12: the outcome of each operation depends on the presence of its own
\* method only.  A request ends as the presence of requestCheckingOfText
\* decides, cancelled when it is absent, whatever the provider holds under
\* spellCheck and whether it has autoCorrectWord; autoCorrectWord returns as
\* the presence of autoCorrectWord decides, the null string when it is
\* absent, whatever the other two are; spellCheck reports nothing when no
\* spellCheck function was resolved and looks up no other method.
C12_MethodsIndependent ==
  /\ (Requesting /\ Returned) =>
       signals = ExpectedSignals(text, "requestCheckingOfText" \in methods, ret)
  /\ (op = "autoCorrectWord" /\ Returned) =>
       result = ExpectedCorrection("autoCorrectWord" \in methods, ret)
  /\ Checking =>
       /\ invoked = <<>> /\ methods = {}
       /\ provider # "function" => NothingReported

\* A provider with autoCorrectWord and neither spellCheck nor
\* requestCheckingOfText: its request for a word was cancelled.
C12_Witness ==
  /\ Requesting /\ Returned
  /\ provider = "absent"
  /\ methods = {"autoCorrectWord"}
  /\ ~AllCommon(text) /\ Convertible(ret)
  /\ signals = <<Cancel>>

(* ---- spellCheck: order of the queries --------------------------------- *)
IsPrefix(a, b) == Len(a) <= Len(b) /\ SubSeq(b, 1, Len(a)) = a

\* The words of the first n sub-words of the token.
SubWordsUpTo(tok, n) ==
  [k \in 1..n |-> Segment(tok.word, 0, FALSE)[k].word]

\* Number of sub-words of the token that are asked about: all of them, or
\* those up to the first rejected one.
AskedSubWords(tok) ==
  LET subs == Segment(tok.word, 0, FALSE)
      rej == {k \in 1..Len(subs) : Rejected(subs[k].word)}
  IN  IF rej = {} THEN Len(subs)
      ELSE CHOOSE k \in rej : \A m \in rej : k <= m

\* The queries of a call from its i-th token on: the token, then its
\* sub-words if it is rejected, then the next token unless this one is
\* reported.
RECURSIVE ExpectedQueries(_)
ExpectedQueries(i) ==
  IF i > Len(Tokens) THEN <<>>
  ELSE LET tok == Tokens[i]
       IN  <<tok.word>> \o
           ( IF ~Rejected(tok.word) \/ ContractionInitFailed(tok)
               THEN ExpectedQueries(i + 1)
             ELSE SubWordsUpTo(tok, AskedSubWords(tok)) \o
                  (IF SubWordRejected(tok) THEN <<>>
                   ELSE ExpectedQueries(i + 1)) )

\* C14: within a call of spellCheck the checker is asked about the words
\* of the segmenter from left to right; the sub-words of a token are asked
\* about after the token was rejected and before the next token; no query
\* follows the report of a misspelling.
C14_QueryOrder ==
  /\ []((Checking /\ Returned /\ Scanned) => queries = ExpectedQueries(1))
  /\ [][(Checking /\ pc' # "idle") =>
          /\ IsPrefix(queries, queries')
          /\ Returned => queries' = queries
          /\ queries' # queries =>
               queries'[Len(queries) + 1] = GetNextWord(text, pos, TRUE).word]_vars

\* A rejected token with two accepted sub-words, then a reported word: five
\* queries.
C14_Witness ==
  /\ Checking /\ Returned /\ Scanned
  /\ Len(Tokens) >= 2
  /\ Rescuable(Tokens[1]) /\ ~ContractionInitFailed(Tokens[1])
  /\ ReportedSpan(Tokens[2])
  /\ Len(queries) = 5
  /\ queries[1] = Tokens[1].word
  /\ queries[4] = Tokens[2].word

(* ---- requestCheckingOfText: the call of the provider ------------------ *)
\* C15: a request that is not short-circuited invokes the provider's
\* requestCheckingOfText at most once, once when the provider has it, with
\* the whole text as its argument; it asks the per-word checker nothing and
\* does not touch the iterators.
C15_SingleDispatch ==
  /\ [](Requesting =>
          /\ queries = <<>>
          /\ init_log = <<>>
          /\ Len(invoked) <= 1
          /\ (Returned /\ ~AllCommon(text)) =>
               invoked = IF "requestCheckingOfText" \in methods
                           THEN <<[method |-> "requestCheckingOfText",
                                   arg |-> text]>>
                         ELSE <<>>)
  /\ [][op' = "requestCheckingOfText" =>
          UNCHANGED <<text_init, contr_init, pos>>]_vars

\* The provider was called once with a text of three code units and
\* returned something that is not an array.
C15_Witness ==
  /\ Requesting /\ Returned
  /\ Len(text) = 3
  /\ invoked = <<[method |-> "requestCheckingOfText", arg |-> text]>>
  /\ ret.kind # "array"

(* ---- HasWordCharacters ------------------------------------------------ *)
\* C16: HasWordCharacters(text, fromIndex) is true exactly when a code
\* point of the text from fromIndex on, surrogate pairs decoded as one code
\* point, has a script other than common; it is false for the empty text
\* and for a fromIndex at or past the end; every step moves the index
\* forward and not past the end.
C16_HasWordCharacters ==
  Requesting =>
    \A k \in 0..(Len(text) + 1) :
      /\ HasWordCharacters(text, k) = ~AllCommon(SubSeq(text, k + 1, Len(text)))
      /\ k >= Len(text) => ~HasWordCharacters(text, k)
      /\ k < Len(text) =>
           /\ U16_NEXT(text, k).index > k
           /\ U16_NEXT(text, k).index <= Len(text)

\* A request whose only word character is a surrogate pair went to the
\* provider, and one whose pair is a symbol does not.
C16_Witness ==
  /\ Requesting /\ pc = "dispatch"
  /\ text = <<"'", "D", "T">>
  /\ HasWordCharacters(text, 0)
  /\ ~HasWordCharacters(<<"'", "M", "T">>, 0)

(* ---- IsValidContraction ----------------------------------------------- *)
\* C17: IsValidContraction returns true when the contraction iterator fails
\* to initialize and when there is no sub-word; otherwise false at the
\* first rejected sub-word, without a query for a later one, and true when
\* all are accepted.  A token whose contraction iterator failed to
\* initialize is not reported.
C17_ContractionFailSafe ==
  /\ (Checking /\ spell_check_) =>
       \A c \in {Tokens[i] : i \in 1..Len(Tokens)} \cup
                {[word |-> <<>>], [word |-> <<"'">>]} :
         \A initialized \in BOOLEAN, init_ok \in BOOLEAN :
           LET r == IsValidContraction(TRUE, verdict, initialized, init_ok,
                                       c.word)
           IN  IF ~initialized /\ ~init_ok
                 THEN r.valid /\ r.asked = <<>>
               ELSE /\ r.valid = ~SubWordRejected(c)
                    /\ r.asked = SubWordsUpTo(c, AskedSubWords(c))
  /\ (Checking /\ Returned) =>
       \A i \in 1..Len(Tokens) :
         ContractionInitFailed(Tokens[i]) => ~ReportedSpan(Tokens[i])

\* A rejected token with a rejected sub-word was passed over because the
\* contraction iterator failed to initialize.
C17_Witness ==
  /\ Checking /\ Returned /\ Scanned
  /\ Len(Tokens) = 1
  /\ Rejected(Tokens[1].word) /\ SubWordRejected(Tokens[1])
  /\ ContractionInitFailed(Tokens[1])
  /\ NothingReported
  /\ queries = <<Tokens[1].word>>

(* ---- the results handed to the host ----------------------------------- *)
Finished ==
  Requesting /\ Returned /\ signals # <<>>
  /\ signals[1].signal = "didFinishCheckingText"

\* C18 as claimed: every result handed to the host has a non-negative
\* location and a positive length.
C18_Original ==
  Finished =>
    \A j \in 1..Len(signals[1].results) :
      /\ signals[1].results[j].location >= 0
      /\ signals[1].results[j].length > 0

\* C18, amended: a result handed to the host has a non-negative location
\* exactly when the provider's element has one, and a positive length
\* exactly when the provider's element has one: the values are not
\* validated.
C18_ResultsAsProvided ==
  Finished =>
    /\ Len(signals[1].results) = Len(ret.elems)
    /\ \A j \in 1..Len(signals[1].results) :
         /\ signals[1].results[j].location >= 0
              <=> ret.elems[j].location.n >= 0
         /\ signals[1].results[j].length > 0
              <=> ret.elems[j].length.n > 0

\* The host was handed a result with a negative location and the length 0
\* next to a well-formed one.
C18_Witness ==
  /\ Finished
  /\ Len(signals[1].results) = 2
  /\ signals[1].results[1].location >= 0 /\ signals[1].results[1].length > 0
  /\ signals[1].results[2].location < 0 /\ signals[1].results[2].length = 0

Outcome(t, fn, passed) ==
  LET toks == Segment(t, 0, TRUE)
      bad == {i \in 1..Len(toks) :
                /\ fn[toks[i].word] = "false"
                /\ \E k \in Range(Segment(toks[i].word, 0, FALSE)) :
                     fn[k.word] = "false"}
  IN  IF bad = {} THEN passed
      ELSE LET first == CHOOSE i \in bad : \A j \in bad : i <= j
           IN  <<toks[first].start, toks[first].length>>

\* C19: with both iterators initialized, what a call of spellCheck reports
\* is given by its text and the answers of the checker, whatever calls came
\* before it and wherever an earlier scan stopped; the text iterator starts
\* at the beginning of the text and moves by its own words only, also when
\* the contraction iterator is run on a word.
C19_CallsIndependent ==
  /\ []((Checking /\ Returned /\ Scanned
         /\ \A i \in 1..Len(init_log) : init_log[i].ok) =>
          <<misspelling_start, misspelling_len>> =
            Outcome(text, verdict, <<passed_start, passed_len>>))
  /\ [][/\ (pc = "idle" /\ pc' = "scan") => pos' = 0
        /\ pc = "scan" => pos' = GetNextWord(text, pos, TRUE).next]_vars

\* After calls of all entry points, the last scan having stopped before a
\* word, a contraction with a rejected sub-word is reported.
C19_Witness ==
  /\ Checking /\ Returned /\ Scanned
  /\ mid_scan
  /\ {"spellCheck", "autoCorrectWord", "requestCheckingOfText"} \subseteq earlier
  /\ text = <<"a", "'", "a">>
  /\ queries = <<text, <<"a">>>>
  /\ ReportedSpan(Tokens[1])
  /\ pos = 3

(* ---- requests and signals --------------------------------------------- *)
\* C20: the signal of a request is delivered before requestCheckingOfText
\* returns: while no call of it runs, and when it has returned, as many
\* signals were delivered as requests were issued; one is outstanding only
\* between the entry and the call of the provider.
C20_NothingPending ==
  /\ ~Requesting => issued = delivered
  /\ (Requesting /\ Returned) => (issued = delivered /\ Len(signals) = 1)
  /\ pc = "dispatch" => (issued = delivered + 1 /\ signals = <<>>)

\* The client is idle after two requests and two signals.
C20_Witness ==
  /\ pc = "idle"
  /\ issued = 2
  /\ delivered = 2
  /\ "requestCheckingOfText" \in earlier

=============================================================================
